---- MODULE Spec2Model ----
(***************************************************************************)
(* PeerWire (assets/js/app.js): two browser tabs, each running one         *)
(* PeerWire instance, signalling over one MQTT topic per room and driving  *)
(* one RTCPeerConnection each.                                             *)
(*                                                                         *)
(* Client ids are modelled as sequences of character codes so that the     *)
(* JavaScript string comparison of handleSignal is computed, not assumed.  *)
(* The RTCPeerConnection is the browser's: its calls are queued on the     *)
(* connection's operations chain and settle one at a time, in call order;  *)
(* the code after an `await` runs when its operation settles.              *)
(***************************************************************************)
EXTENDS Integers, Sequences, FiniteSets, TLC

VARIABLES hash, stage, clientId, roomId, isInitiator, pc, ops, status,
          subscribed, inflight, published, dups, reconnects, third, chat

vars == <<hash, stage, clientId, roomId, isInitiator, pc, ops, status,
          subscribed, inflight, published, dups, reconnects, third, chat>>

\* ------------------------------------------------------------------ bounds
MaxDup == 1
MaxCand == 1
MaxReconnect == 1

MaxThird == 1

MaxJoin == 3

MaxText == 2

MaxSent == 1

\* ------------------------------------------------------------- the tabs
Proc == {1, 2}

Peer(a) == 3 - a

aaa == <<1, 1, 1>>

zzz == <<26, 26, 26>>

aa == <<1, 1>>

\* the id of a third participant in the room
mmm == <<13, 13, 13>>

Ids == {aaa, zzz, aa}

NoId == <<>>

Rooms == {"r"}

\* what a URL hash can hold: two plain room ids, and the single-level
\* wildcard of MQTT topic filters
RoomIds == {"r", "s", "+"}

\* ---------------------------------------------------------- pure helpers
RECURSIVE StrLT(_, _)
StrLT(x, y) ==
    IF y = <<>> THEN FALSE
    ELSE IF x = <<>> THEN TRUE
    ELSE IF Head(x) = Head(y) THEN StrLT(Tail(x), Tail(y))
    ELSE Head(x) < Head(y)

StrGT(x, y) == StrLT(y, x)

\* mutant: the comparison of the presence branch turned round
DecideLower(local, remote) == StrLT(local, remote)

\* mutant: every PRESENCE of another id makes the receiver the initiator
DecideAnyPeer(local, remote) == local # remote

\* the role the presence branch decides for (local, remote)
Decide(local, remote) == StrGT(local, remote)

SignalTopic(room) == <<"peerwire/rooms", room, "signals">>

\* the relay's matching of a subscription's topic filter against the topic
\* of a publication, level by level
TopicMatches(filter, topic) ==
    /\ Len(filter) = Len(topic)
    /\ \A i \in 1..Len(filter) : filter[i] = "+" \/ filter[i] = topic[i]

\* a topic name a client may publish on holds no wildcard
ValidTopicName(topic) == \A i \in 1..Len(topic) : topic[i] \notin {"+", "#"}

Envelope(sender, type, data) == [sender |-> sender, type |-> type, data |-> data]

\* a message on the topic whose text is not JSON
Garbled == [sender |-> NoId, type |-> "<not JSON>", data |-> 0]

\* JSON.parse(message.toString()) returns (it throws a SyntaxError otherwise)
Parses(m) == m # Garbled

\* the `type` values the switch of handleSignal has a case for
KnownTypes == {"presence", "offer", "answer", "candidate"}

NoDesc == [type |-> "none", n |-> 0]

Desc(type, n) == [type |-> type, n |-> n]

NoPc == [open |-> FALSE, dc |-> FALSE, sig |-> "stable", local |-> NoDesc,
         remote |-> NoDesc, cands |-> <<>>, conn |-> "new", gathered |-> 0,
         complete |-> FALSE, offers |-> 0, gen |-> 0]

NoStatus == [type |-> "", text |-> ""]

UpdateStatus(type, text) == [type |-> type, text |-> text]

\* the chat: the text in the input field, the readyState of
\* this.dataChannel ("none" while there is no channel object), the texts
\* sent on the channel and the texts appended to the chat as 'Me'
NoChat == [input |-> <<>>, ready |-> "none", sent |-> <<>>, log |-> <<>>]

NoPublished == [presence |-> 0, offer |-> 0, answer |-> 0, candidate |-> 0]

Op(op, desc, h) == [op |-> op, desc |-> desc, h |-> h]

\* mutant: createPeerConnection without its first line
AlwaysCreate(cur, initiator) ==
    [NoPc EXCEPT !.open = TRUE, !.dc = initiator, !.gen = cur.gen + 1]

\* createPeerConnection: no-op when this.pc is set, otherwise a new
\* connection whose data channel is created only by the initiator; gen
\* counts the connections the instance has created
CreatePeerConnection(cur, initiator) ==
    IF cur.open THEN cur
    ELSE [NoPc EXCEPT !.open = TRUE, !.dc = initiator, !.gen = cur.gen + 1]

\* the envelopes queued for a that a sent itself
OwnEcho(a) == {e \in inflight[a] : e.sender = clientId[a]}

\* the relay: an envelope published on a topic is queued for every client
\* whose subscription matches that topic at that moment, the sender
\* included; the sender's own copy takes the place of an older own copy
\* still queued.  A publication on a topic name with a wildcard is not
\* relayed
Fanout(sub, a, msg) ==
    [b \in Proc |->
        IF /\ sub[b]
           /\ ValidTopicName(SignalTopic(roomId[a]))
           /\ TopicMatches(SignalTopic(roomId[b]), SignalTopic(roomId[a]))
        THEN (IF b = a THEN inflight[b] \ OwnEcho(a) ELSE inflight[b]) \cup {msg}
        ELSE inflight[b]]

\* mutant: sendSignal publishes on a topic nobody is subscribed to
SendSignalOtherTopic(sub, a, type, data) ==
    /\ inflight' = inflight
    /\ published' = [published EXCEPT ![a][type] = @ + 1]

\* sendSignal(type, data): the publish, and the relay's fan-out of it
SendSignal(sub, a, type, data) ==
    /\ inflight' = Fanout(sub, a, Envelope(clientId[a], type, data))
    /\ published' = [published EXCEPT ![a][type] = @ + 1]

\* -------------------------------------------------------------------- Init
\* the fields set by the constructor, and nothing published or queued
Constructed ==
    /\ stage = [a \in Proc |-> "loading"]
    /\ clientId = [a \in Proc |-> NoId]
    /\ roomId = [a \in Proc |-> ""]
    /\ isInitiator = [a \in Proc |-> FALSE]
    /\ pc = [a \in Proc |-> NoPc]
    /\ ops = [a \in Proc |-> <<>>]
    /\ status = [a \in Proc |-> NoStatus]
    /\ subscribed = [a \in Proc |-> FALSE]
    /\ inflight = [a \in Proc |-> {}]
    /\ published = [a \in Proc |-> NoPublished]
    /\ dups = 0
    /\ reconnects = 0
    /\ third = 0
    /\ chat = [a \in Proc |-> NoChat]

Init ==
    /\ hash \in [Proc -> Rooms \cup {""}]
    /\ Constructed

\* the tabs are opened on any of the room ids
RoomInit ==
    /\ hash \in [Proc -> RoomIds]
    /\ Constructed

\* ------------------------------------------------------------ page start-up
\* mutant: init without its test of the room id
LoadAnyRoom(a) ==
    /\ stage[a] = "loading"
    /\ \E i \in Ids : clientId' = [clientId EXCEPT ![a] = i]
    /\ roomId' = [roomId EXCEPT ![a] = hash[a]]
    /\ stage' = [stage EXCEPT ![a] = "media"]
    /\ status' = [status EXCEPT ![a] = UpdateStatus("connecting", "Joining room...")]
    /\ UNCHANGED <<hash, isInitiator, pc, ops, subscribed, inflight, published, dups, reconnects, third, chat>>

\* window.onload: new PeerWire(), whose constructor draws the client id,
\* reads the room from the URL hash and calls init() up to its first await
Load(a) ==
    /\ stage[a] = "loading"
    /\ \E i \in Ids : clientId' = [clientId EXCEPT ![a] = i]
    /\ roomId' = [roomId EXCEPT ![a] = hash[a]]
    /\ IF hash[a] = ""
       THEN /\ stage' = [stage EXCEPT ![a] = "landing"]
            /\ UNCHANGED status
       ELSE /\ stage' = [stage EXCEPT ![a] = "media"]
            /\ status' = [status EXCEPT ![a] = UpdateStatus("connecting", "Joining room...")]
    /\ UNCHANGED <<hash, isInitiator, pc, ops, subscribed, inflight, published, dups, reconnects, third, chat>>

\* getUserMedia resolves: setupMedia finishes, setupMQTT starts the
\* connection to the broker, bindEvents binds the buttons
MediaGranted(a) ==
    /\ stage[a] = "media"
    /\ stage' = [stage EXCEPT ![a] = "connecting"]
    /\ UNCHANGED <<hash, clientId, roomId, isInitiator, pc, ops, status,
                   subscribed, inflight, published, dups, reconnects, third, chat>>

\* getUserMedia rejects: the catch block of init, then bindEvents
MediaDenied(a) ==
    /\ stage[a] = "media"
    /\ stage' = [stage EXCEPT ![a] = "denied"]
    /\ status' = [status EXCEPT ![a] = UpdateStatus("disconnected", "Camera/Mic access denied")]
    /\ UNCHANGED <<hash, clientId, roomId, isInitiator, pc, ops,
                   subscribed, inflight, published, dups, reconnects, third, chat>>

\* mutant: the connect handler announces the agent on the first connect
\* only
OnConnectOnce(a) ==
    /\ stage[a] = "connecting"
    /\ stage' = [stage EXCEPT ![a] = "subscribing"]
    /\ status' = [status EXCEPT ![a] = UpdateStatus("connecting", "Waiting for peer...")]
    /\ published' = [published EXCEPT ![a]["presence"] = IF @ = 0 THEN 1 ELSE @]
    /\ UNCHANGED <<hash, clientId, roomId, isInitiator, pc, ops, subscribed,
                   inflight, dups, reconnects, third, chat>>

\* mqttClient.on('connect'): subscribe, status, publish presence.  The
\* SUBSCRIBE and the PUBLISH leave the client one after the other; the
\* broker takes them up in that order, each in a step of its own
OnConnect(a) ==
    /\ stage[a] = "connecting"
    /\ stage' = [stage EXCEPT ![a] = "subscribing"]
    /\ status' = [status EXCEPT ![a] = UpdateStatus("connecting", "Waiting for peer...")]
    /\ published' = [published EXCEPT ![a]["presence"] = @ + 1]
    /\ UNCHANGED <<hash, clientId, roomId, isInitiator, pc, ops, subscribed,
                   inflight, dups, reconnects, third, chat>>

\* the broker registers the subscription sent by the connect handler
BrokerSubscribe(a) ==
    /\ stage[a] = "subscribing"
    /\ stage' = [stage EXCEPT ![a] = "announcing"]
    /\ subscribed' = [subscribed EXCEPT ![a] = TRUE]
    /\ UNCHANGED <<hash, clientId, roomId, isInitiator, pc, ops, status,
                   inflight, published, dups, reconnects, third, chat>>

\* the broker relays the presence sent by the connect handler
BrokerPresence(a) ==
    /\ stage[a] = "announcing"
    /\ stage' = [stage EXCEPT ![a] = "joined"]
    /\ inflight' = Fanout(subscribed, a, Envelope(clientId[a], "presence", 0))
    /\ UNCHANGED <<hash, clientId, roomId, isInitiator, pc, ops, status,
                   subscribed, published, dups, reconnects, third, chat>>

\* the connection to the broker breaks: the subscription of the clean
\* session and the envelopes queued for the client are gone, and the
\* client reconnects by itself, which raises 'connect' again
ConnectionLost(a) ==
    /\ stage[a] \in {"subscribing", "announcing", "joined"}
    /\ reconnects < MaxReconnect
    /\ reconnects' = reconnects + 1
    /\ stage' = [stage EXCEPT ![a] = "connecting"]
    /\ subscribed' = [subscribed EXCEPT ![a] = FALSE]
    /\ inflight' = [inflight EXCEPT ![a] = {}]
    /\ UNCHANGED <<hash, clientId, roomId, isInitiator, pc, ops, status, published, dups, third, chat>>

\* ------------------------------------------------------- inbound envelopes
\* handleSignal(signal): the part that runs before its first await.  Every
\* awaited call on the connection is put on the connection's operations
\* chain together with the handler that continues when it settles.
HandleSignal(a, m) ==
    CASE m.type = "presence" ->
            IF Decide(clientId[a], m.sender)
            THEN \* isInitiator = true; startCall() up to `await createOffer()`
                 /\ isInitiator' = [isInitiator EXCEPT ![a] = TRUE]
                 /\ pc' = [pc EXCEPT ![a] = CreatePeerConnection(@, TRUE)]
                 /\ ops' = [ops EXCEPT ![a] = Append(@, Op("createOffer", NoDesc, "startCall"))]
            ELSE /\ isInitiator' = [isInitiator EXCEPT ![a] = FALSE]
                 /\ UNCHANGED <<pc, ops>>
      [] m.type = "offer" ->
            \* handleOffer(data) up to `await setRemoteDescription(offer)`
            /\ pc' = [pc EXCEPT ![a] = CreatePeerConnection(@, isInitiator[a])]
            /\ ops' = [ops EXCEPT ![a] = Append(@, Op("setRemoteDescription", Desc("offer", m.data), "handleOffer"))]
            /\ UNCHANGED isInitiator
      [] m.type = "answer" ->
            \* handleAnswer(data): this.pc.setRemoteDescription throws a
            \* TypeError inside the async function when this.pc is null
            /\ IF pc[a].open
               THEN ops' = [ops EXCEPT ![a] = Append(@, Op("setRemoteDescription", Desc("answer", m.data), "handleAnswer"))]
               ELSE UNCHANGED ops
            /\ UNCHANGED <<isInitiator, pc>>
      [] m.type = "candidate" ->
            /\ IF pc[a].open
               THEN ops' = [ops EXCEPT ![a] = Append(@, Op("addIceCandidate", Desc("candidate", m.data), "handleSignal"))]
               ELSE UNCHANGED ops
            /\ UNCHANGED <<isInitiator, pc>>
      [] OTHER -> UNCHANGED <<isInitiator, pc, ops>>

\* mutant: the message handler without its sender test
NeverSelfEcho(a, m) == FALSE

\* the sender test of mqttClient.on('message')
IsSelfEcho(a, m) == m.sender = clientId[a]

\* handleAnswer while this.pc is null: `this.pc.setRemoteDescription`
\* throws a TypeError
AnswerThrows(a, m) ==
    /\ Parses(m)
    /\ ~IsSelfEcho(a, m)
    /\ m.type = "answer"
    /\ ~pc[a].open

\* mqttClient.on('message'): parse, drop our own envelopes, handleSignal.
\* When JSON.parse throws, the exception leaves the callback before
\* anything else has run
Dispatch(a, m) ==
    IF ~Parses(m) \/ IsSelfEcho(a, m)
    THEN UNCHANGED <<isInitiator, pc, ops>>
    ELSE HandleSignal(a, m)

\* the relay hands one queued envelope to a subscriber
OnMessage(a, m) ==
    /\ subscribed[a]
    /\ m \in inflight[a]
    /\ inflight' = [inflight EXCEPT ![a] = @ \ {m}]
    /\ Dispatch(a, m)
    /\ UNCHANGED <<hash, stage, clientId, roomId, status, subscribed, published, dups, reconnects, third, chat>>

\* the relay hands over an envelope and keeps a copy to deliver again
OnMessageDup(a, m) ==
    /\ subscribed[a]
    /\ m \in inflight[a]
    /\ dups < MaxDup
    /\ dups' = dups + 1
    /\ Dispatch(a, m)
    /\ UNCHANGED <<hash, stage, clientId, roomId, status, subscribed, inflight, published, reconnects, third, chat>>

\* the relay loses a queued envelope
Lose(a, m) ==
    /\ m \in inflight[a]
    /\ inflight' = [inflight EXCEPT ![a] = @ \ {m}]
    /\ UNCHANGED <<hash, stage, clientId, roomId, isInitiator, pc, ops, status,
                   subscribed, published, dups, reconnects, third, chat>>

\* ------------------------------------------------ the RTCPeerConnection
\* whether the connection accepts the operation at the head of its chain
\* (otherwise the promise rejects and the awaiting handler ends there)
Accepts(c, o) ==
    CASE o.op = "createOffer" -> TRUE
      [] o.op = "createAnswer" -> c.sig = "have-remote-offer"
      [] o.op = "setLocalDescription" ->
            IF o.desc.type = "offer"
            THEN c.sig \in {"stable", "have-local-offer"}
            ELSE c.sig = "have-remote-offer"
      [] o.op = "setRemoteDescription" ->
            IF o.desc.type = "offer"
            THEN c.sig \in {"stable", "have-remote-offer"}
            ELSE c.sig = "have-local-offer"
      [] o.op = "addIceCandidate" -> c.remote # NoDesc
      [] OTHER -> FALSE

\* a remote offer for a connection that has a local offer pending: browsers
\* with implicit rollback drop the local offer and apply the remote one,
\* the others reject the call with an InvalidStateError
RollsBack(c, o) ==
    /\ o.op = "setRemoteDescription"
    /\ o.desc.type = "offer"
    /\ c.sig = "have-local-offer"

\* the connection after it has carried out an accepted operation
Applied(c, o) ==
    CASE o.op = "createOffer" -> [c EXCEPT !.offers = @ + 1]
      [] o.op = "createAnswer" -> c
      [] o.op = "setLocalDescription" ->
            [c EXCEPT !.local = o.desc,
                      !.sig = IF o.desc.type = "offer" THEN "have-local-offer" ELSE "stable"]
      [] o.op = "setRemoteDescription" ->
            [c EXCEPT !.remote = o.desc,
                      !.local = IF RollsBack(c, o) THEN NoDesc ELSE @,
                      !.sig = IF o.desc.type = "offer" THEN "have-remote-offer" ELSE "stable"]
      [] o.op = "addIceCandidate" -> [c EXCEPT !.cands = Append(@, o.desc.n)]
      [] OTHER -> c

\* pc.ontrack: the peer's tracks arrive with its first description
OnTrack(a, c, o) ==
    IF o.op = "setRemoteDescription" /\ c.remote = NoDesc
    THEN UpdateStatus("online", "Connected")
    ELSE status[a]

\* mutant: startCall without `await` before setLocalDescription, so that
\* the offer is published while the connection is still installing it
OfferCreatedNoAwait(a, c, rest) ==
    /\ ops' = [ops EXCEPT ![a] = Append(rest, Op("setLocalDescription", Desc("offer", c.offers), "none"))]
    /\ SendSignal(subscribed, a, "offer", c.offers)
    /\ status' = [status EXCEPT ![a] = UpdateStatus("connecting", "Calling...")]

\* startCall once createOffer has resolved, c being the connection and
\* rest its operations chain then: await this.pc.setLocalDescription(offer)
OfferCreated(a, c, rest) ==
    /\ ops' = [ops EXCEPT ![a] = Append(rest, Op("setLocalDescription", Desc("offer", c.offers), "startCall"))]
    /\ UNCHANGED <<status, inflight, published>>

\* the operation at the head of the chain is carried out, its promise
\* resolves and the handler that awaited it runs on to its next await or to
\* its end
Resolve(a) ==
    /\ ops[a] # <<>>
    /\ Accepts(pc[a], Head(ops[a])) \/ RollsBack(pc[a], Head(ops[a]))
    /\ LET o == Head(ops[a])
           rest == Tail(ops[a])
           c == Applied(pc[a], o)
       IN /\ pc' = [pc EXCEPT ![a] = c]
          /\ CASE o.h = "startCall" /\ o.op = "createOffer" ->
                    OfferCreated(a, c, rest)
               [] o.h = "startCall" /\ o.op = "setLocalDescription" ->
                    \* sendSignal('offer', offer); updateStatus(...)
                    /\ ops' = [ops EXCEPT ![a] = rest]
                    /\ SendSignal(subscribed, a, "offer", o.desc.n)
                    /\ status' = [status EXCEPT ![a] = UpdateStatus("connecting", "Calling...")]
               [] o.h = "handleOffer" /\ o.op = "setRemoteDescription" ->
                    \* const answer = await this.pc.createAnswer()
                    /\ ops' = [ops EXCEPT ![a] = Append(rest, Op("createAnswer", NoDesc, "handleOffer"))]
                    /\ status' = [status EXCEPT ![a] = OnTrack(a, pc[a], o)]
                    /\ UNCHANGED <<inflight, published>>
               [] o.h = "handleOffer" /\ o.op = "createAnswer" ->
                    \* await this.pc.setLocalDescription(answer)
                    /\ ops' = [ops EXCEPT ![a] = Append(rest, Op("setLocalDescription", Desc("answer", c.remote.n), "handleOffer"))]
                    /\ UNCHANGED <<status, inflight, published>>
               [] o.h = "handleOffer" /\ o.op = "setLocalDescription" ->
                    \* sendSignal('answer', answer)
                    /\ ops' = [ops EXCEPT ![a] = rest]
                    /\ SendSignal(subscribed, a, "answer", o.desc.n)
                    /\ UNCHANGED status
               [] o.h = "handleAnswer" ->
                    /\ ops' = [ops EXCEPT ![a] = rest]
                    /\ status' = [status EXCEPT ![a] = OnTrack(a, pc[a], o)]
                    /\ UNCHANGED <<inflight, published>>
               [] OTHER ->
                    /\ ops' = [ops EXCEPT ![a] = rest]
                    /\ UNCHANGED <<status, inflight, published>>
    /\ UNCHANGED <<hash, stage, clientId, roomId, isInitiator, subscribed, dups, reconnects, third, chat>>

\* the connection refuses the operation at the head of the chain: its
\* promise rejects, the exception ends the handler that awaited it, and
\* nothing catches the rejection of the handler's own promise
Reject(a) ==
    /\ ops[a] # <<>>
    /\ ~Accepts(pc[a], Head(ops[a]))
    /\ ops' = [ops EXCEPT ![a] = Tail(@)]
    /\ UNCHANGED <<hash, stage, clientId, roomId, isInitiator, pc, status, subscribed,
                   inflight, published, dups, reconnects, third, chat>>

\* the operation at the head of the chain settles
Settle(a) == Resolve(a) \/ Reject(a)

\* mutant: onicecandidate without its sendSignal
LocalCandidateDropped(a) ==
    /\ pc[a].open
    /\ pc[a].local # NoDesc
    /\ pc[a].gathered < MaxCand
    /\ pc' = [pc EXCEPT ![a].gathered = @ + 1]
    /\ UNCHANGED <<hash, stage, clientId, roomId, isInitiator, ops, status,
                   subscribed, inflight, published, dups, reconnects, third, chat>>

\* pc.onicecandidate with a candidate: sendSignal('candidate', ...)
LocalCandidate(a) ==
    /\ pc[a].open
    /\ pc[a].local # NoDesc
    /\ ~pc[a].complete
    /\ pc[a].gathered < MaxCand
    /\ pc' = [pc EXCEPT ![a].gathered = @ + 1]
    /\ SendSignal(subscribed, a, "candidate", pc[a].gathered + 1)
    /\ UNCHANGED <<hash, stage, clientId, roomId, isInitiator, ops, status,
                   subscribed, dups, reconnects, third, chat>>

\* pc.onicecandidate with event.candidate null, the end of gathering:
\* the handler does nothing
EndOfCandidates(a) ==
    /\ pc[a].open
    /\ pc[a].local # NoDesc
    /\ ~pc[a].complete
    /\ pc' = [pc EXCEPT ![a].complete = TRUE]
    /\ UNCHANGED <<hash, stage, clientId, roomId, isInitiator, ops, status,
                   subscribed, inflight, published, dups, reconnects, third, chat>>

\* both descriptions are installed: the transport can start connecting
Negotiated(c) == c.open /\ c.local # NoDesc /\ c.remote # NoDesc

\* the connection states the transport reports, one after another; it
\* reaches the peer only when the peer's transport is negotiated too
ConnNext(a) ==
    CASE pc[a].conn = "new" ->
            {"failed"} \cup (IF Negotiated(pc[Peer(a)]) THEN {"connected"} ELSE {})
      [] pc[a].conn = "connected" -> {"disconnected"}
      [] pc[a].conn = "disconnected" ->
            {"failed"} \cup (IF Negotiated(pc[Peer(a)]) THEN {"connected"} ELSE {})
      [] OTHER -> {}

\* mutant: the handler without its else-if branch
ConnectedOnly(s, cur) ==
    IF s = "connected" THEN UpdateStatus("online", "Connected") ELSE cur

\* the status the handler of onconnectionstatechange shows for state s
ConnectionStatus(s, cur) ==
    IF s = "connected" THEN UpdateStatus("online", "Connected")
    ELSE IF s = "disconnected" \/ s = "failed"
         THEN UpdateStatus("disconnected", "Peer disconnected")
         ELSE cur

\* pc.onconnectionstatechange, the transport reporting state s
OnConnectionStateChange(a, s) ==
    /\ Negotiated(pc[a])
    /\ s \in ConnNext(a)
    /\ pc' = [pc EXCEPT ![a].conn = s]
    /\ status' = [status EXCEPT ![a] = ConnectionStatus(s, @)]
    /\ UNCHANGED <<hash, stage, clientId, roomId, isInitiator, ops,
                   subscribed, inflight, published, dups, reconnects, third, chat>>

\* ------------------------------------------------------------------ hangup
\* bindEvents has run: init got past setupMedia, whichever way it ended
EventsBound(a) ==
    stage[a] \in {"denied", "connecting", "subscribing", "announcing", "joined"}

\* the hangup button: clear the hash and ask for a reload of the page.
\* Nothing is closed by the handler; the instance, its connection, its
\* pending handlers and its subscription live on until the page is unloaded
Hangup(a) ==
    /\ EventsBound(a)
    /\ hash' = [hash EXCEPT ![a] = ""]
    /\ UNCHANGED <<stage, clientId, roomId, isInitiator, pc, ops, status,
                   subscribed, inflight, published, dups, reconnects, third, chat>>

\* the reload asked for by hangup is under way
Reloading(a) == roomId[a] # "" /\ hash[a] = ""

\* the browser unloads the page: the instance is discarded with all it
\* holds, and the page starts to load again
Unload(a) ==
    /\ Reloading(a)
    /\ stage' = [stage EXCEPT ![a] = "loading"]
    /\ clientId' = [clientId EXCEPT ![a] = NoId]
    /\ roomId' = [roomId EXCEPT ![a] = ""]
    /\ isInitiator' = [isInitiator EXCEPT ![a] = FALSE]
    /\ pc' = [pc EXCEPT ![a] = NoPc]
    /\ ops' = [ops EXCEPT ![a] = <<>>]
    /\ status' = [status EXCEPT ![a] = NoStatus]
    /\ subscribed' = [subscribed EXCEPT ![a] = FALSE]
    /\ inflight' = [inflight EXCEPT ![a] = {}]
    /\ chat' = [chat EXCEPT ![a] = NoChat]
    /\ UNCHANGED <<hash, published, dups, reconnects, third>>

\* how many times the tabs have joined a room
Joins == published[1]["presence"] + published[2]["presence"]

\* the landing page: the create-room button sets the hash to a room and
\* reloads the page; the instance behind the landing page holds nothing
CreateRoom(a) ==
    /\ stage[a] = "landing"
    /\ Joins < MaxJoin
    /\ \E r \in Rooms : hash' = [hash EXCEPT ![a] = r]
    /\ stage' = [stage EXCEPT ![a] = "loading"]
    /\ clientId' = [clientId EXCEPT ![a] = NoId]
    /\ chat' = [chat EXCEPT ![a] = NoChat]
    /\ UNCHANGED <<roomId, isInitiator, pc, ops, status, subscribed, inflight,
                   published, dups, reconnects, third>>

\* -------------------------------------------------------------------- chat
\* the texts a user can type: up to MaxText characters, blank or not
Chars == {" ", "x"}

Texts == UNION {[1..n -> Chars] : n \in 0..MaxText}

\* mutant: the text taken as typed
Untrimmed(s) == s

\* String.prototype.trim: the text without its leading and trailing blanks
RECURSIVE Trim(_)
Trim(s) ==
    IF s = <<>> THEN s
    ELSE IF Head(s) = " " THEN Trim(Tail(s))
    ELSE IF s[Len(s)] = " " THEN Trim(SubSeq(s, 1, Len(s) - 1))
    ELSE s

\* this.dataChannel && this.dataChannel.readyState: the initiator holds a
\* channel from createPeerConnection on, the receiver from ondatachannel on
ReadyState(a) ==
    IF chat[a].ready = "none" /\ pc[a].open /\ pc[a].dc
    THEN "connecting"
    ELSE chat[a].ready

\* the user types into the chat input
TypeText(a, t) ==
    /\ EventsBound(a)
    /\ chat[a].input # t
    /\ chat' = [chat EXCEPT ![a].input = t]
    /\ UNCHANGED <<hash, stage, clientId, roomId, isInitiator, pc, ops, status,
                   subscribed, inflight, published, dups, reconnects, third>>

\* the data channel the initiator created opens on both sides once both
\* connections hold both descriptions (ondatachannel hands it to the
\* receiver)
ChannelOpens(a) ==
    /\ chat[a].ready = "none"
    /\ Negotiated(pc[a])
    /\ Negotiated(pc[Peer(a)])
    /\ pc[a].dc \/ pc[Peer(a)].dc
    /\ chat' = [chat EXCEPT ![a].ready = "open"]
    /\ UNCHANGED <<hash, stage, clientId, roomId, isInitiator, pc, ops, status,
                   subscribed, inflight, published, dups, reconnects, third>>

\* the data channel closes
ChannelCloses(a) ==
    /\ chat[a].ready = "open"
    /\ chat' = [chat EXCEPT ![a].ready = "closed"]
    /\ UNCHANGED <<hash, stage, clientId, roomId, isInitiator, pc, ops, status,
                   subscribed, inflight, published, dups, reconnects, third>>

\* sendMessage(), from the send button or the Enter key
SendMessage(a) ==
    /\ EventsBound(a)
    /\ Len(chat[a].sent) < MaxSent
    /\ LET text == Trim(chat[a].input)
       IN IF text # <<>> /\ ReadyState(a) = "open"
          THEN chat' = [chat EXCEPT ![a].sent = Append(@, text),
                                    ![a].log = Append(@, text),
                                    ![a].input = <<>>]
          ELSE UNCHANGED chat
    /\ UNCHANGED <<hash, stage, clientId, roomId, isInitiator, pc, ops, status,
                   subscribed, inflight, published, dups, reconnects, third>>

\* ------------------------------------------------------ a third participant
\* what another client of the broker publishes on the room's topic: the
\* envelopes of a third PeerWire tab with id "mmm", an envelope of a type
\* PeerWire does not know, and a message that is not JSON
ThirdParty ==
    {Envelope(mmm, "presence", 0), Envelope(mmm, "offer", 1),
     Envelope(mmm, "answer", 1), Envelope(mmm, "bogus", 0), Garbled}

\* the relay fans a third party's message out to the subscribers of room r
Stranger(r, msg) ==
    /\ third < MaxThird
    /\ third' = third + 1
    /\ inflight' = [b \in Proc |->
          IF subscribed[b] /\ roomId[b] = r THEN inflight[b] \cup {msg} ELSE inflight[b]]
    /\ UNCHANGED <<hash, stage, clientId, roomId, isInitiator, pc, ops, status,
                   subscribed, published, dups, reconnects, chat>>

\* ---------------------------------------------------------- specifications
ConnStates == {"connected", "disconnected", "failed"}

\* joining the room and the offer/answer exchange, with a relay that
\* delivers every envelope once
Signalling ==
    \/ \E a \in Proc : Load(a)
    \/ \E a \in Proc : MediaGranted(a)
    \/ \E a \in Proc : MediaDenied(a)
    \/ \E a \in Proc : OnConnect(a)
    \/ \E a \in Proc : BrokerSubscribe(a)
    \/ \E a \in Proc : BrokerPresence(a)
    \/ \E a \in Proc : \E m \in inflight[a] : OnMessage(a, m)
    \/ \E a \in Proc : Resolve(a)

\* ... with the operations a connection refuses
Exchange ==
    \/ Signalling
    \/ \E a \in Proc : Reject(a)

\* the signalling protocol: the exchange and the candidates that trickle
Protocol ==
    \/ Exchange
    \/ \E a \in Proc : LocalCandidate(a)

\* ... with the transport's reports
Session ==
    \/ Protocol
    \/ \E a \in Proc : \E s \in ConnStates : OnConnectionStateChange(a, s)

\* ... with the user's hangup, the reload, and a relay that can lose
\* envelopes
Next ==
    \/ Session
    \/ \E a \in Proc : Hangup(a)
    \/ \E a \in Proc : Unload(a)
    \/ \E a \in Proc : \E m \in inflight[a] : Lose(a, m)

Spec == Init /\ [][Next]_vars

\* the signalling protocol with a relay that can lose an envelope and can
\* deliver one more than once
NextDup ==
    \/ Protocol
    \/ \E a \in Proc : \E m \in inflight[a] : Lose(a, m)
    \/ \E a \in Proc : \E m \in inflight[a] : OnMessageDup(a, m)

DupSpec == Init /\ [][NextDup]_vars

\* the signalling protocol with connections to the broker that can break
\* and come back
NextReconnect ==
    \/ Protocol
    \/ \E a \in Proc : ConnectionLost(a)

ReconnectSpec == Init /\ [][NextReconnect]_vars

\* ... with a user who leaves and comes back to the room
NextRejoin ==
    \/ Exchange
    \/ \E a \in Proc : Hangup(a)
    \/ \E a \in Proc : Unload(a)
    \/ \E a \in Proc : CreateRoom(a)

RejoinSpec == Init /\ [][NextRejoin]_vars

\* ... with a third party publishing on the room's topic
NextOpen ==
    \/ Exchange
    \/ \E r \in Rooms : \E msg \in ThirdParty : Stranger(r, msg)

OpenSpec == Init /\ [][NextOpen]_vars

\* the signalling protocol with tabs opened on different rooms
RoomSpec == RoomInit /\ [][Protocol]_vars

\* the exchange with the chat on top of it
NextChat ==
    \/ Signalling
    \/ \E a \in Proc : \E t \in Texts : TypeText(a, t)
    \/ \E a \in Proc : ChannelOpens(a)
    \/ \E a \in Proc : ChannelCloses(a)
    \/ \E a \in Proc : SendMessage(a)

ChatSpec == Init /\ [][NextChat]_vars

\* the signalling protocol with the end of candidate gathering
NextIce ==
    \/ Protocol
    \/ \E a \in Proc : EndOfCandidates(a)

IceSpec == Init /\ [][NextIce]_vars

\* the relay delivers every envelope to the clients subscribed when it was
\* published, the event loop runs every queued message event and every
\* settled promise, and a transport that can connect does connect
Deliver(a) == \E m \in inflight[a] : OnMessage(a, m)

Fairness ==
    \A a \in Proc :
        /\ WF_vars(Deliver(a))
        /\ WF_vars(Settle(a))
        /\ WF_vars(OnConnectionStateChange(a, "connected"))

FairSpec == Init /\ [][Session]_vars /\ Fairness

TypeOK ==
    /\ stage \in [Proc -> {"loading", "landing", "media", "denied", "connecting",
                          "subscribing", "announcing", "joined"}]
    /\ isInitiator \in [Proc -> BOOLEAN]
    /\ subscribed \in [Proc -> BOOLEAN]
    /\ dups \in 0..MaxDup
    /\ reconnects \in 0..MaxReconnect
    /\ third \in 0..MaxThird

\* ------------------------------------------------------ claim vocabulary
\* x is lexicographically higher than y: at the first position where they
\* differ x has the larger code, or y is a proper prefix of x
LexHigher(x, y) ==
    \E i \in 1..Len(x) :
        /\ \A j \in 1..(i - 1) : j <= Len(y) /\ x[j] = y[j]
        /\ (i > Len(y) \/ x[i] > y[i])

\* two live instances with distinct ids in the same room
InRoomTogether(a, b) ==
    /\ roomId[a] # ""
    /\ roomId[a] = roomId[b]
    /\ clientId[a] # clientId[b]

\* the relay hands envelope m to a, once or as a repeated delivery
Delivered(a, m) == OnMessage(a, m) \/ OnMessageDup(a, m)

\* the instance of a has never started a call
NeverCalled(a) ==
    /\ ~isInitiator[a]
    /\ pc[a].offers = 0
    /\ pc[a].local.type # "offer"
    /\ \A i \in 1..Len(ops[a]) : ops[a][i].h # "startCall"
    /\ \A b \in Proc : \A e \in inflight[b] :
           ~(e.sender = clientId[a] /\ e.type = "offer")

AddIceCalls(q) == Cardinality({i \in 1..Len(q) : q[i].op = "addIceCandidate"})

BothJoined(a) ==
    /\ InRoomTogether(a, Peer(a))
    /\ stage[a] = "joined"
    /\ stage[Peer(a)] = "joined"

\* something outside the exchange ended it: a tab left, or a transport
\* reported the loss of the connection
Disturbed ==
    \E x \in Proc :
        \/ stage[x] # "joined"
        \/ hash[x] = ""
        \/ pc[x].conn \in {"disconnected", "failed"}

\* ------------------------------------------------------------------ claims
\* C1: when the presence branch of handleSignal handles a PRESENCE from
\* another id, it decides INITIATOR exactly when the local id is the
\* lexicographically higher of the two, and the mirrored pair decides the
\* opposite role.
C1_RoleArbitration ==
    [][\A a \in Proc : \A m \in inflight[a] :
          (Delivered(a, m) /\ m.type = "presence" /\ m.sender # clientId[a])
          => /\ isInitiator'[a] = LexHigher(clientId[a], m.sender)
             /\ isInitiator'[a] = ~Decide(m.sender, clientId[a])]_vars

\* the agent "aaa" has decided INITIATOR against "aa", a prefix of its id
C1_Witness ==
    \E a \in Proc :
        /\ InRoomTogether(a, Peer(a))
        /\ clientId[a] = aaa
        /\ clientId[Peer(a)] = aa
        /\ isInitiator[a]
        /\ ~isInitiator[Peer(a)]
        /\ pc[Peer(a)].open

\* C2: two agents with distinct ids in one room are never both INITIATOR,
\* and the one with the lower id has not called startCall, created an offer
\* or published an OFFER, whatever the relay loses, repeats or reorders.
C2_NoGlare ==
    \A a \in Proc :
        InRoomTogether(a, Peer(a))
        => /\ ~(isInitiator[a] /\ isInitiator[Peer(a)])
           /\ (LexHigher(clientId[Peer(a)], clientId[a]) => NeverCalled(a))

\* the higher agent has published an OFFER, the lower one has taken it up,
\* and the relay has repeated a delivery
C2_Witness ==
    \E a \in Proc :
        /\ InRoomTogether(a, Peer(a))
        /\ isInitiator[Peer(a)]
        /\ published[Peer(a)]["offer"] >= 1
        /\ pc[a].open
        /\ dups = 1

\* C3: an agent publishes at most one OFFER and creates at most one offer,
\* also when a PRESENCE it has already handled is delivered again.
C3_DuplicatePresenceIdempotent ==
    \A a \in Proc : published[a]["offer"] <= 1 /\ pc[a].offers <= 1

\* C4: a CANDIDATE from the peer that is delivered before a remote
\* description has been applied is kept for the transport.
C4_NoCandidateLost ==
    [][\A a \in Proc : \A m \in inflight[a] :
          (/\ Delivered(a, m)
           /\ m.type = "candidate"
           /\ m.sender # clientId[a]
           /\ pc[a].remote = NoDesc)
          => \E i \in 1..Len(ops'[a]) :
                /\ ops'[a][i].op = "addIceCandidate"
                /\ ops'[a][i].desc.n = m.data]_vars

\* C5: addIceCandidate is called only on a connection whose remote
\* description has been applied.
C5_CandidateAfterRemoteDescription ==
    [][\A a \in Proc :
          AddIceCalls(ops'[a]) > AddIceCalls(ops[a]) => pc[a].remote # NoDesc]_vars

\* C6: the delivery of an envelope whose sender is the receiver's own id
\* changes neither its role, its connection, its pending handlers nor its
\* status, and publishes nothing.
C6_SelfEchoIgnored ==
    [][\A a \in Proc : \A m \in inflight[a] :
          (Delivered(a, m) /\ m.sender = clientId[a])
          => /\ UNCHANGED <<isInitiator, pc, ops, status, published>>
             /\ inflight'[Peer(a)] = inflight[Peer(a)]]_vars

\* the initiator has published its OFFER and no copy of its own envelopes
\* is queued for it any more
C6_Witness ==
    \E a \in Proc :
        /\ stage[a] = "joined"
        /\ isInitiator[a]
        /\ published[a]["offer"] = 1
        /\ pc[a].local.type = "offer"
        /\ OwnEcho(a) = {}

\* C7: once two agents with distinct ids have both joined the room, the
\* one with the higher id eventually publishes an OFFER (unless a tab
\* leaves).
C7_Convergence ==
    \A a \in Proc :
        [](BothJoined(a) /\ LexHigher(clientId[a], clientId[Peer(a)])
           => <>(published[a]["offer"] >= 1 \/ Disturbed))

\* agent A = "zzz" and agent B = "aaa" have joined, and B's PRESENCE is on
\* its way to A
Scenario(a) ==
    /\ BothJoined(a)
    /\ clientId[a] = zzz
    /\ clientId[Peer(a)] = aaa
    /\ Envelope(aaa, "presence", 0) \in inflight[a]

\* A is INITIATOR and has published an OFFER, B is RESPONDER, has
\* applied it and published an ANSWER, A has applied the ANSWER, both
\* transports are connected and both report the connected status
Final(a) ==
    /\ isInitiator[a]
    /\ ~isInitiator[Peer(a)]
    /\ published[a]["offer"] >= 1
    /\ pc[Peer(a)].remote.type = "offer"
    /\ published[Peer(a)]["answer"] >= 1
    /\ pc[a].remote.type = "answer"
    /\ pc[a].conn = "connected"
    /\ pc[Peer(a)].conn = "connected"
    /\ status[a] = UpdateStatus("online", "Connected")
    /\ status[Peer(a)] = UpdateStatus("online", "Connected")

\* C8: from the scenario of "zzz" and "aaa", with fair delivery and fair
\* scheduling, the exchange reaches its final state (unless a tab leaves or
\* a transport reports the loss of the connection).
C8_EndToEnd ==
    \A a \in Proc : [](Scenario(a) => <>(Final(a) \/ Disturbed))

\* the final state of the scenario, reached after each PRESENCE was
\* relayed to the other agent
C8_Witness ==
    \E a \in Proc :
        /\ clientId[a] = zzz
        /\ clientId[Peer(a)] = aaa
        /\ BothJoined(a)
        /\ Final(a)
        /\ ~Disturbed

\* C9: hangup can be invoked whenever the button is bound, and once it
\* has been invoked the agent publishes no envelope.
C9_LeaveSafe ==
    [][\A a \in Proc :
          /\ EventsBound(a) => ENABLED Hangup(a)
          /\ hash[a] = "" => published'[a] = published[a]]_vars

\* C10: at most one handler of an agent is suspended at an await at any
\* time.
C10_Serialized ==
    \A a \in Proc : Len(ops[a]) <= 1

\* C11: when an OFFER is delivered to an agent that has already published
\* its ANSWER, the agent makes no call on its connection for it: it starts
\* no setRemoteDescription, and so creates and publishes no second answer.
C11_RepeatedOfferIgnored ==
    [][\A a \in Proc : \A m \in inflight[a] :
          (/\ Delivered(a, m)
           /\ m.type = "offer"
           /\ m.sender # clientId[a]
           /\ published[a]["answer"] >= 1)
          => UNCHANGED <<pc, ops>>]_vars

\* the agent has decided INITIATOR and has published an OFFER of its own
InitiatorWithOffer(a) == isInitiator[a] /\ published[a]["offer"] >= 1

\* C12: an agent that has decided INITIATOR and published its OFFER does
\* not apply an OFFER as its remote description, publishes no ANSWER, and
\* no handleOffer of its ends with an error.
C12_InitiatorDiscardsOffer ==
    [][\A a \in Proc :
          InitiatorWithOffer(a)
          => /\ ~(Reject(a) /\ Head(ops[a]).h = "handleOffer")
             /\ pc'[a].remote = pc[a].remote \/ pc'[a].remote.type # "offer"
             /\ published'[a]["answer"] = published[a]["answer"]]_vars

\* the agent has no OFFER outstanding: it has no connection, it is the
\* RESPONDER, or it is an initiator whose ANSWER has been applied
NoOutstandingOffer(a) ==
    \/ ~pc[a].open
    \/ ~isInitiator[a]
    \/ pc[a].remote.type = "answer"

\* C13: for an agent that has no OFFER outstanding, the handling of an
\* ANSWER raises no error, neither at once nor when its
\* setRemoteDescription settles, and leaves the connection as it is.
C13_AnswerOnlyWhenOfferSent ==
    [][\A a \in Proc :
          NoOutstandingOffer(a)
          => /\ \A m \in inflight[a] : ~(Delivered(a, m) /\ AnswerThrows(a, m))
             /\ (ops[a] # <<>> /\ Head(ops[a]).h = "handleAnswer")
                => (~Reject(a) /\ pc'[a] = pc[a])]_vars

\* C14: the delivery of a message that is not JSON, or of an envelope of
\* an unknown type, throws nothing out of the message handler and changes
\* neither the role, the connection, the pending handlers nor what the
\* agent has published.
C14_EnvelopeErrorsSwallowed ==
    [][\A a \in Proc : \A m \in inflight[a] :
          (Delivered(a, m) /\ (~Parses(m) \/ m.type \notin KnownTypes))
          => /\ Parses(m)
             /\ UNCHANGED <<isInitiator, pc, ops, published>>]_vars

\* C15: when a PRESENCE from a third id is delivered to an agent that has
\* negotiated with its peer, the agent keeps its role and its connection
\* and starts no call.
C15_ThirdPresenceIgnored ==
    [][\A a \in Proc : \A m \in inflight[a] :
          (/\ Delivered(a, m)
           /\ m.type = "presence"
           /\ m.sender \notin {clientId[a], clientId[Peer(a)]}
           /\ Negotiated(pc[a]))
          => UNCHANGED <<isInitiator, pc, ops>>]_vars

\* C16: whenever the transport of an agent's connection reports 'failed'
\* or 'disconnected', the agent's status after that step is the
\* disconnected status.
C16_TransportFailureSurfaced ==
    [][\A a \in Proc :
          (/\ pc[a].open
           /\ pc'[a].conn \in {"failed", "disconnected"}
           /\ pc'[a].conn # pc[a].conn)
          => status'[a] = UpdateStatus("disconnected", "Peer disconnected")]_vars

\* an agent that showed the connected status shows the disconnected one
\* after its transport has failed
C16_Witness ==
    \E a \in Proc :
        /\ pc[a].open
        /\ pc[a].conn = "failed"
        /\ pc[Peer(a)].conn = "connected"
        /\ status[a] = UpdateStatus("disconnected", "Peer disconnected")

\* C17: once the transport of an agent's connection has reported 'failed',
\* and for as long as the agent keeps that connection, no remote
\* description or candidate is applied to it, the agent publishes no
\* OFFER, ANSWER or CANDIDATE, and its status is neither connecting nor
\* connected.
C17_FailureTerminatesAttempt ==
    [][\A a \in Proc :
          (pc[a].conn = "failed" /\ pc'[a].open)
          => /\ pc'[a].remote = pc[a].remote
             /\ pc'[a].cands = pc[a].cands
             /\ \A t \in {"offer", "answer", "candidate"} :
                   published'[a][t] = published[a][t]
             /\ status'[a].type \notin {"connecting", "online"}]_vars

\* C18: an agent shows the connected status only while the transport of
\* its connection is in state 'connected'.
C18_ConnectedOnlyWhenTransportConnected ==
    \A a \in Proc :
        status[a] = UpdateStatus("online", "Connected") => pc[a].conn = "connected"

\* C19: an ANSWER is dispatched only to the instance that created the
\* offer it answers, never to an instance that was created after the one
\* that made the offer had left.
C19_NoStaleEnvelope ==
    [][\A a \in Proc : \A m \in inflight[a] :
          (Delivered(a, m) /\ m.type = "answer" /\ m.sender # clientId[a])
          => (pc[a].open /\ pc[a].offers >= m.data)]_vars

\* two agents with the same id have joined the same room, and every
\* envelope the relay queued for them has been delivered
Collided ==
    /\ clientId[1] = clientId[2]
    /\ roomId[1] # ""
    /\ roomId[1] = roomId[2]
    /\ \A a \in Proc : stage[a] = "joined" /\ inflight[a] = {}

\* C20: once two agents with the same id have joined one room and their
\* PRESENCE envelopes have been delivered, at least one of them (the one
\* that received the other's PRESENCE) reports an error status.
C20_IdentityCollisionFailsFast ==
    Collided => \E a \in Proc : status[a].type = "disconnected"

\* C21: every candidate event of an agent's connection that carries a
\* candidate publishes exactly one CANDIDATE envelope, with the agent's id
\* as sender and queued for the subscribed peer in the room, and the event
\* with a null candidate publishes nothing.
C21_LocalCandidatesForwarded ==
    [][\A a \in Proc :
          /\ pc'[a].gathered = pc[a].gathered + 1
             => /\ published'[a] = [published[a] EXCEPT !["candidate"] = @ + 1]
                /\ (subscribed[Peer(a)] /\ roomId[Peer(a)] = roomId[a])
                   => Envelope(clientId[a], "candidate", pc'[a].gathered) \in inflight'[Peer(a)]
          /\ (pc'[a].complete /\ ~pc[a].complete)
             => UNCHANGED <<published, inflight>>]_vars

\* both agents have published a candidate, and the initiator has ended
\* its gathering before the ANSWER has been applied
C21_Witness ==
    \E a \in Proc :
        /\ published[a]["candidate"] = 1
        /\ published[Peer(a)]["candidate"] = 1
        /\ pc[a].complete
        /\ pc[a].remote = NoDesc

\* C22: while two agents have different room ids, nothing one of them
\* publishes is queued for the other, and neither decides a role or
\* creates a connection.
C22_RoomIsolation ==
    \A a \in Proc :
        roomId[a] # roomId[Peer(a)]
        => /\ \A e \in inflight[a] : e.sender = clientId[a]
           /\ ~isInitiator[a]
           /\ ~pc[a].open

\* C23: in the step that publishes an OFFER the agent's connection has
\* created that offer and holds it as its local description, and in the
\* step that publishes an ANSWER the connection holds a received offer as
\* its remote description and the published answer as its local
\* description.
C23_PublishedAfterInstalled ==
    [][\A a \in Proc :
          /\ published'[a]["offer"] > published[a]["offer"]
             => /\ pc[a].offers >= 1
                /\ pc'[a].local.type = "offer"
                /\ \A b \in Proc : \A e \in inflight'[b] \ inflight[b] :
                      e = Envelope(clientId[a], "offer", pc'[a].local.n)
          /\ published'[a]["answer"] > published[a]["answer"]
             => /\ pc'[a].remote.type = "offer"
                /\ pc'[a].local.type = "answer"
                /\ \A b \in Proc : \A e \in inflight'[b] \ inflight[b] :
                      e = Envelope(clientId[a], "answer", pc'[a].local.n)]_vars

\* the responder has published its ANSWER to the second of two offers the
\* initiator made after a repeated PRESENCE
C23_Witness ==
    \E a \in Proc :
        /\ published[a]["answer"] >= 1
        /\ pc[a].remote = Desc("offer", 2)
        /\ published[Peer(a)]["offer"] = 2

\* C24: every 'connect' event of an agent, a reconnect included,
\* publishes exactly one PRESENCE and nothing else; the relay has the
\* agent's subscription when it relays that PRESENCE; and an agent that
\* publishes an OFFER, ANSWER or CANDIDATE has published a PRESENCE
\* before.
C24_PresenceOnEveryConnect ==
    [][\A a \in Proc :
          /\ (stage[a] = "connecting" /\ stage'[a] = "subscribing")
             => published'[a] = [published[a] EXCEPT !["presence"] = @ + 1]
          /\ (stage[a] = "announcing" /\ stage'[a] = "joined")
             => /\ subscribed[a]
                /\ Envelope(clientId[a], "presence", 0) \in inflight'[a]
          /\ (\E t \in {"offer", "answer", "candidate"} : published'[a][t] > published[a][t])
             => published[a]["presence"] >= 1]_vars

\* an agent has reconnected, announced itself a second time, and has
\* published an OFFER
C24_Witness ==
    \E a \in Proc :
        /\ reconnects = 1
        /\ stage[a] = "joined"
        /\ published[a]["presence"] = 2
        /\ published[a]["offer"] >= 1

\* init has got past setupMedia with a local stream
MediaAcquired(a) ==
    stage[a] \in {"connecting", "subscribing", "announcing", "joined"}

\* the instance has never been on the signal channel
NeverConnected(a) ==
    /\ ~subscribed[a]
    /\ published[a] = NoPublished
    /\ inflight[a] = {}
    /\ ~pc[a].open

\* C25: an instance with an empty room id stays on the landing page and
\* never connects; an instance whose media were refused shows
\* 'disconnected' and never connects; an instance that has published, is
\* subscribed or has a connection has a room id and a local stream.
C25_StartupGating ==
    \A a \in Proc :
        /\ (stage[a] # "loading" /\ roomId[a] = "")
           => (stage[a] = "landing" /\ NeverConnected(a))
        /\ stage[a] = "denied"
           => /\ status[a] = UpdateStatus("disconnected", "Camera/Mic access denied")
              /\ NeverConnected(a)
        /\ (published[a] # NoPublished \/ subscribed[a] \/ pc[a].open)
           => (roomId[a] # "" /\ MediaAcquired(a))

\* one tab was opened without a room, the other was refused its media,
\* and both have come to rest
C25_Witness ==
    \E a \in Proc :
        /\ stage[a] = "landing"
        /\ stage[Peer(a)] = "denied"

\* the instance has made an offer and installed it, which is when
\* startCall publishes it
Offered(a) ==
    /\ pc[a].open
    /\ pc[a].offers >= 1
    /\ pc[a].local # NoDesc

\* C26: an agent that has published an OFFER has created the data
\* channel on its connection, and its peer has not created one.
C26_DataChannelRoles ==
    \A a \in Proc : Offered(a) => (pc[a].dc /\ ~pc[Peer(a)].dc)

\* the text holds a character that is not a blank
NonBlank(s) == \E i \in 1..Len(s) : s[i] # " "

\* the part of a non-blank text from its first to its last non-blank
\* character
Core(s) ==
    LET first == CHOOSE i \in 1..Len(s) : s[i] # " " /\ \A k \in 1..(i - 1) : s[k] = " "
        last == CHOOSE j \in 1..Len(s) : s[j] # " " /\ \A k \in (j + 1)..Len(s) : s[k] = " "
    IN SubSeq(s, first, last)

\* the chat of a after it has sent the text of its input field
Sent(a) ==
    [input |-> <<>>,
     ready |-> chat[a].ready,
     sent |-> Append(chat[a].sent, Core(chat[a].input)),
     log |-> Append(chat[a].log, Core(chat[a].input))]

\* C27: sendMessage sends the trimmed text on the data channel, appends
\* it to the chat and clears the input when the text is not blank and the
\* channel is open, and changes nothing otherwise; nothing is sent or
\* appended in any other way.
C27_SendOnlyOnOpenChannel ==
    [][\A a \in Proc :
          LET sendable == NonBlank(chat[a].input) /\ chat[a].ready = "open"
          IN /\ SendMessage(a)
                => IF sendable THEN chat'[a] = Sent(a) ELSE chat'[a] = chat[a]
             /\ (chat'[a].sent # chat[a].sent \/ chat'[a].log # chat[a].log)
                => (sendable /\ chat'[a] = Sent(a))]_vars

\* an agent has sent a text, and the other has a text typed while its
\* channel is closed
C27_Witness ==
    \E a \in Proc :
        /\ chat[a].sent = << <<"x">> >>
        /\ chat[a].log = << <<"x">> >>
        /\ chat[a].input = <<>>
        /\ chat[Peer(a)].ready = "closed"
        /\ chat[Peer(a)].input = <<"x", " ">>
        /\ chat[Peer(a)].sent = <<>>

\* C28: an instance creates at most one RTCPeerConnection, and once it
\* has one it keeps that one: no PRESENCE or OFFER makes it create another
\* or lose it.
C28_OnePeerConnection ==
    [][\A a \in Proc :
          /\ pc'[a].gen <= 1
          /\ pc'[a].open = (pc'[a].gen = 1)
          /\ pc[a].open
             => /\ pc'[a].open
                /\ pc'[a].gen = pc[a].gen
                /\ pc'[a].dc = pc[a].dc
                /\ pc'[a].offers >= pc[a].offers]_vars

\* startCall has run twice on the one connection of the initiator, after
\* a repeated PRESENCE
C28_Witness ==
    \E a \in Proc :
        /\ pc[a].open
        /\ pc[a].gen = 1
        /\ pc[a].offers = 2
        /\ pc[Peer(a)].open
        /\ pc[Peer(a)].gen = 1
====
